---- MODULE Spec2Model ----
(***************************************************************************)
(* A model of Graph/graph.py: the Pipe stage-composition engine, the Node  *)
(* variants (DataNode, ProcessingNode, MixerNode) with their WeakSet edge  *)
(* sets, and Layer.process / Layer.connect_to.                             *)
(*                                                                         *)
(* Python objects that are mutated in place and can be shared (lists) live *)
(* on a heap and are referred to by address; dicts are only ever copied    *)
(* (dict.copy(), **kwargs), so a dict is a function from keys to values.   *)
(***************************************************************************)
EXTENDS Integers, Sequences, FiniteSets, TLC

VARIABLES
    kind,          \* node -> class of the node
    data,          \* node -> Node.data (Optional[dict])
    inputs,        \* node -> Node.inputs  (WeakSet)
    outputs,       \* node -> Node.outputs (WeakSet)
    data_history,  \* node -> DataNode.data_history
    pipeline,      \* node -> index into pipes of ProcessingNode.pipeline, 0 for None
    pipes,         \* the Pipe objects: [value, trace, functions]
    heap,          \* the list objects: address -> contents
    layers,        \* the Layer objects: sequence of Layer.nodes
    order,         \* the iteration order of the WeakSets in this interpreter run
    stack,         \* the call stack of Node.process invocations
    exc,           \* the exception being raised, "none" when there is none
    pc,            \* position of the driver: "idle" or inside Layer.process
    lidx,          \* index of the node Layer.process is at
    runs,          \* number of top-level calls made so far
    calls,         \* stages invoked by the latest Pipe.__call__, in order
    result,        \* what the latest Pipe.__call__ returned
    lastOp,        \* the latest completed top-level call
    requested,     \* every (a, b) for which a.add_output(b) or b.add_input(a) was called
    invoked,       \* log of Node.process invocations of the current Layer.process
    merged         \* what the latest MixerNode.custom_merge returned

vars == <<kind, data, inputs, outputs, data_history, pipeline, pipes, heap,
          layers, order, stack, exc, pc, lidx, runs, calls, result, lastOp,
          requested, invoked, merged>>

---------------------------------------------------------------------------
(* Values, dicts, Optional                                                 *)

IntV(n) == [t |-> "int", v |-> n]
RefV(a) == [t |-> "list", v |-> a]
IsList(x) == x.t = "list"

EmptyDict == <<>>
Single(k, x) == [j \in {k} |-> x]

\* dict.update(d2) on d1 / {**d1, **d2}
Update(d1, d2) ==
    [k \in DOMAIN d1 \cup DOMAIN d2 |-> IF k \in DOMAIN d2 THEN d2[k] ELSE d1[k]]

\* dict.get(key, default)
Get(d, k, default) == IF k \in DOMAIN d THEN d[k] ELSE default

None == [some |-> FALSE, d |-> EmptyDict]
Some(d) == [some |-> TRUE, d |-> d]

\* the elements of a sequence
Range(q) == {q[i] : i \in 1..Len(q)}

\* Python truthiness of an Optional[dict]: None and {} are both falsy
Truthy(o) == o.some /\ DOMAIN o.d # {}

---------------------------------------------------------------------------
(* The heap of list objects                                                *)

\* list.append(x) on the list at address a
ListAppend(h, a, x) == [h EXCEPT ![a] = Append(@, x)]

\* list.extend(xs) on the list at address a (xs is read before the write)
ListExtend(h, a, xs) == [h EXCEPT ![a] = @ \o xs]

\* a new list object; its address is the next free one
NewList(h, xs) == Append(h, xs)
NewAddr(h) == Len(h) + 1

---------------------------------------------------------------------------
(* Stages: the callables composed into a Pipe (example.py)                 *)

\* what calling a stage gives: it raised, or returned a dict, or returned
\* something that is not a dict
Raised == [raised |-> TRUE, isdict |-> FALSE, out |-> EmptyDict]
Returned(d) == [raised |-> FALSE, isdict |-> TRUE, out |-> d]
ReturnedNonDict == [raised |-> FALSE, isdict |-> FALSE, out |-> EmptyDict]

\* add_value(value=arg, **data): data["passthrough"] = data.get("passthrough", 0) + value
add_value(arg, kw) ==
    LET cur == Get(kw, "passthrough", IntV(0)) IN
    IF IsList(cur) THEN Raised    \* list + int is a TypeError
    ELSE Returned(Update(kw, Single("passthrough", IntV(cur.v + arg))))

\* square_value(**data): val = data.get("passthrough", 0); data["passthrough"] = val * val
square_value(kw) ==
    LET val == Get(kw, "passthrough", IntV(0)) IN
    IF IsList(val) THEN Raised    \* list * list is a TypeError
    ELSE Returned(Update(kw, Single("passthrough", IntV(val.v * val.v))))

\* multiply_value(**data): data["passthrough"] = data.get("passthrough", 1) * data.get("m", 1)
multiply_value(kw) ==
    LET val == Get(kw, "passthrough", IntV(1))
        m == Get(kw, "m", IntV(1))
    IN  IF IsList(val) \/ IsList(m) THEN Raised  \* kept out of the inputs: list * int repeats the list
        ELSE Returned(Update(kw, Single("passthrough", IntV(val.v * m.v))))

StAdd(n) == [name |-> "<lambda>", kind |-> "add", key |-> "passthrough", arg |-> n]
StSquare == [name |-> "square_value", kind |-> "square", key |-> "passthrough", arg |-> 0]
StMultiply == [name |-> "multiply_value", kind |-> "multiply", key |-> "passthrough", arg |-> 0]
\* a stage returning the one-entry mapping {key: n}, whatever it is passed
StConst(k, n) == [name |-> "const", kind |-> "const", key |-> k, arg |-> n]
\* a stage returning None
StNonDict == [name |-> "returns_none", kind |-> "nondict", key |-> "", arg |-> 0]
\* a stage that raises
StRaise == [name |-> "raises", kind |-> "raise", key |-> "", arg |-> 0]

\* func(**kw)
Apply(func, kw) ==
    CASE func.kind = "add" -> add_value(func.arg, kw)
      [] func.kind = "square" -> square_value(kw)
      [] func.kind = "multiply" -> multiply_value(kw)
      [] func.kind = "const" -> Returned(Single(func.key, IntV(func.arg)))
      [] func.kind = "nondict" -> ReturnedNonDict
      [] OTHER -> Raised

---------------------------------------------------------------------------
(* Pipe                                                                    *)

\* Pipe.__init__: with trace, the bag gets the key "trace", a new list
\* holding the snapshot of the bag taken before the key is set
Pipe_init(value, trace, h) ==
    IF trace
    THEN [pipe |-> [value |-> Update(value, Single("trace", RefV(NewAddr(h)))),
                    trace |-> TRUE, functions |-> <<>>],
          heap |-> NewList(h, <<[function |-> "input", output |-> value]>>)]
    ELSE [pipe |-> [value |-> value, trace |-> FALSE, functions |-> <<>>],
          heap |-> h]

\* Pipe.__or__ with a callable operand
Pipe_or(p, func) == [p EXCEPT !.functions = Append(@, func)]

\* The loop of Pipe.__call__ from stage i on. value is self.value, h the
\* heap, log the stages invoked so far. A stage that raises or returns a
\* non-dict ends the run with None; so does a failing trace append, which
\* comes after self.value.update(result).
RECURSIVE CallFrom(_, _, _, _, _)
CallFrom(p, i, value, h, log) ==
    IF i > Len(p.functions)
    THEN [result |-> Some(value), value |-> value, heap |-> h, calls |-> log]
    ELSE LET func == p.functions[i]
             r == Apply(func, value)
             log1 == Append(log, i)
             value1 == Update(value, r.out)
         IN  IF r.raised \/ ~r.isdict
             THEN [result |-> None, value |-> value, heap |-> h, calls |-> log1]
             ELSE IF ~p.trace
             THEN CallFrom(p, i + 1, value1, h, log1)
             ELSE IF "trace" \in DOMAIN value1 /\ IsList(value1["trace"])
             THEN CallFrom(p, i + 1, value1,
                           ListAppend(h, value1["trace"].v,
                                      [function |-> func.name, output |-> r.out]),
                           log1)
             ELSE [result |-> None, value |-> value1, heap |-> h, calls |-> log1]

\* Pipe.__call__ restoring the bag when a stage fails
Pipe_call_rollback(p, h) ==
    LET c == CallFrom(p, 1, p.value, h, <<>>) IN
    IF c.result.some THEN c ELSE [c EXCEPT !.value = p.value]

\* Pipe.__call__
Pipe_call(p, h) == CallFrom(p, 1, p.value, h, <<>>)

---------------------------------------------------------------------------
(* Node edges. E = [inputs, outputs, n]: the two WeakSets of every node,   *)
(* and the number of add_input / add_output invocations so far. Every node *)
(* is strongly referenced by its Layer, so no WeakSet entry disappears.    *)

RECURSIVE add_input(_, _, _)
RECURSIVE add_output(_, _, _)

\* Node.add_output without the registration on the other side
add_output_oneway(E, self, node) ==
    [E EXCEPT !.outputs[self] = @ \cup {node}, !.n = @ + 1]

\* Node.add_input: self.add_input(node)
add_input(E, self, node) ==
    IF node \notin E.inputs[self]
    THEN add_output([E EXCEPT !.inputs[self] = @ \cup {node}, !.n = @ + 1], node, self)
    ELSE [E EXCEPT !.n = @ + 1]

\* Node.add_output: self.add_output(node)
add_output(E, self, node) ==
    IF node \notin E.outputs[self]
    THEN add_input([E EXCEPT !.outputs[self] = @ \cup {node}, !.n = @ + 1], node, self)
    ELSE [E EXCEPT !.n = @ + 1]

\* one top-level registration: E.n restarts, E.max keeps the largest count
Registered(E, F) == [F EXCEPT !.max = IF F.n > E.max THEN F.n ELSE E.max, !.n = 0]

\* Layer.connect_to, the inner loop: node.add_output(next_node) for
\* next_node in next_layer.nodes[j..]
RECURSIVE connect_node(_, _, _, _)
connect_node(E, node, next_nodes, j) ==
    IF j > Len(next_nodes) THEN E
    ELSE connect_node(Registered(E, add_output(E, node, next_nodes[j])),
                      node, next_nodes, j + 1)

\* Layer.connect_to, the outer loop from self.nodes[i] on
RECURSIVE connect_from(_, _, _, _)
connect_from(E, self_nodes, next_nodes, i) ==
    IF i > Len(self_nodes) THEN E
    ELSE connect_from(connect_node(E, self_nodes[i], next_nodes, 1),
                      self_nodes, next_nodes, i + 1)

\* Layer.connect_to reaching only the first node of the next layer
connect_to_first(E, self_nodes, next_nodes) ==
    connect_from(E, self_nodes, SubSeq(next_nodes, 1, 1), 1)

\* Layer.connect_to: self.connect_to(next_layer)
connect_to(E, self_nodes, next_nodes) == connect_from(E, self_nodes, next_nodes, 1)

\* the edge sets of the state, as E
Edges(ins, outs) == [inputs |-> ins, outputs |-> outs, n |-> 0, max |-> 0]

---------------------------------------------------------------------------
(* MixerNode.custom_merge                                                  *)

\* one pass of the loop body of custom_merge for (key, value) of dict2;
\* M = [merged, heap]
merge_key(M, key, value) ==
    LET mk == M.merged[key] IN
    IF key \in DOMAIN M.merged
    THEN IF IsList(mk) /\ IsList(value)
         THEN \* merged[key].extend(value): in place, on the list dict1 holds
              [M EXCEPT !.heap = ListExtend(M.heap, mk.v, M.heap[value.v])]
         ELSE IF IsList(mk)
         THEN \* merged[key].append(value): in place, on the list dict1 holds
              [M EXCEPT !.heap = ListAppend(M.heap, mk.v, value)]
         ELSE IF IsList(value)
         THEN \* merged[key] = [merged[key]] + value: a new list
              [merged |-> Update(M.merged, Single(key, RefV(NewAddr(M.heap)))),
               heap |-> NewList(M.heap, <<mk>> \o M.heap[value.v])]
         ELSE \* merged[key] = [merged[key], value]: a new list
              [merged |-> Update(M.merged, Single(key, RefV(NewAddr(M.heap)))),
               heap |-> NewList(M.heap, <<mk, value>>)]
    ELSE \* merged[key] = value: the very object dict2 holds
         [M EXCEPT !.merged = Update(M.merged, Single(key, value))]

\* the loop of custom_merge over dict2.items(), keys in the order ks, from ks[i] on
RECURSIVE merge_from(_, _, _, _)
merge_from(M, dict2, ks, i) ==
    IF i > Len(ks) THEN M
    ELSE merge_from(merge_key(M, ks[i], dict2[ks[i]]), dict2, ks, i + 1)

\* custom_merge dropping the keys only dict2 has
custom_merge_left(dict1, dict2, ks, h) ==
    merge_from([merged |-> dict1, heap |-> h], dict2,
               SelectSeq(ks, LAMBDA k : k \in DOMAIN dict1), 1)

\* MixerNode.custom_merge(dict1, dict2); ks is the order of dict2's keys.
\* merged = dict1.copy() and the final merged.copy() copy the dict, not the
\* lists in it.
custom_merge(dict1, dict2, ks, h) ==
    merge_from([merged |-> dict1, heap |-> h], dict2, ks, 1)

---------------------------------------------------------------------------
(* Bounds and the sets the inputs are drawn from                           *)

\* stages appended to one Pipe
MaxStages == 3
\* top-level calls (Pipe.__call__, Layer.process) in one behaviour
MaxRuns == 2

\* Node.name: the unique ids
Nodes == {"n1", "n2", "n3", "n4"}

PipeStages == {StAdd(1), StMultiply, StConst("m", 3), StConst("trace", 0),
               StNonDict, StRaise}
InitialBags == {EmptyDict, Single("passthrough", IntV(2))}

\* nodes of one Layer
MaxLayerLen == 2

\* the sequences of distinct nodes of S of length 1..k: what Layer.nodes can be
RECURSIVE SeqsUpTo(_, _)
SeqsUpTo(S, k) ==
    IF k = 0 THEN {<<>>}
    ELSE LET shorter == SeqsUpTo(S, k - 1) IN
         shorter \cup {Append(q, n) : q \in {r \in shorter : Len(r) = k - 1}, n \in S}
LayersOver(S) ==
    {q \in SeqsUpTo(S, MaxLayerLen) : Len(q) >= 1 /\ Cardinality(Range(q)) = Len(q)}

\* the nodes wired by hand in SpecEdges
EdgeNodes == {"n1", "n2", "n3"}

\* elements of a list given to custom_merge
MaxListLen == 2

\* what a key of a dict given to custom_merge holds: nothing, an int, or a
\* list (<<>>, <<1>>, <<1, 2>>, ...)
SlotChoices ==
    {[k |-> "absent", xs |-> <<>>]}
    \cup {[k |-> "int", xs |-> <<IntV(n)>>] : n \in {1, 2}}
    \cup {[k |-> "list", xs |-> [i \in 1..n |-> IntV(i)]] : n \in 0..MaxListLen}
MergeKeys == <<"a", "b">>

\* the order of the nodes in Layer.nodes and in example.py
NodeSeq == <<"n1", "n2", "n3", "n4">>

\* the graphs: the layers, wired first to second, second to third, ... as in
\* example.py: a chain, a fan-in, a diamond and two full layers
Shapes == {<<<<"n1">>, <<"n2">>, <<"n3">>, <<"n4">>>>,
           <<<<"n1", "n2">>, <<"n3">>, <<"n4">>>>,
           <<<<"n1">>, <<"n2", "n3">>, <<"n4">>>>,
           <<<<"n1", "n2">>, <<"n3", "n4">>>>}

\* what a node is: its class and, for a ProcessingNode, the stages of its Pipe
Role(k, fns) == [kind |-> k, functions |-> fns]
RoleChoices == {Role("DataNode", <<>>),
                Role("MixerNode", <<>>),
                Role("ProcessingNode", <<StAdd(5)>>),
                Role("ProcessingNode", <<StSquare>>),
                Role("ProcessingNode", <<StAdd(5), StRaise>>),
                Role("ProcessingNode", <<StNonDict>>)}

\* how the pipelines of a graph are constructed: Pipe(), or
\* Pipe(value={"m": 3}, trace=True)
PipeSetups == {[value |-> EmptyDict, trace |-> FALSE],
               [value |-> Single("m", IntV(3)), trace |-> TRUE]}
\* the shapes run with traced pipelines: the chain and the fan-in
TracedShapes == {ls \in Shapes : Len(ls) >= 3 /\ Len(ls[2]) = 1}
\* the nodes of a graph with traced pipelines
TracedRoles == {Role("DataNode", <<>>),
                Role("ProcessingNode", <<StAdd(5)>>),
                Role("ProcessingNode", <<StAdd(5), StRaise>>)}
\* Node.data given to the nodes of the entry layer at construction
EntryData == {None, Some(EmptyDict), Some(Single("passthrough", IntV(10)))}

\* the orders in which the WeakSets of this interpreter run iterate: by
\* hash, which is the order of insertion or its reverse for two elements
HashOrders == {NodeSeq, [i \in 1..Len(NodeSeq) |-> NodeSeq[Len(NodeSeq) + 1 - i]]}

NoOp == [op |-> "none", a |-> <<>>, b |-> <<>>]

---------------------------------------------------------------------------
(* A Pipe on its own: construction, | and ()                               *)

graphVars == <<kind, data, inputs, outputs, data_history, pipeline, layers,
               order, stack, exc, pc, lidx, requested, invoked, merged>>

NoGraph ==
    /\ kind = [n \in Nodes |-> "DataNode"]
    /\ data = [n \in Nodes |-> None]
    /\ inputs = [n \in Nodes |-> {}]
    /\ outputs = [n \in Nodes |-> {}]
    /\ data_history = [n \in Nodes |-> <<>>]
    /\ pipeline = [n \in Nodes |-> 0]
    /\ layers = <<>>
    /\ order = <<>>
    /\ stack = <<>>
    /\ exc = "none"
    /\ pc = "idle"
    /\ lidx = 0
    /\ requested = {}
    /\ invoked = <<>>
    /\ merged = None

\* Pipe(value=v, trace=t)
PipeInit ==
    /\ \E v \in InitialBags, t \in BOOLEAN :
          LET c == Pipe_init(v, t, <<>>) IN
          /\ pipes = <<c.pipe>>
          /\ heap = c.heap
    /\ runs = 0
    /\ calls = <<>>
    /\ result = None
    /\ lastOp = NoOp
    /\ NoGraph

\* pipe | func
PipeOr(func) ==
    /\ Len(pipes[1].functions) < MaxStages
    /\ pipes' = [pipes EXCEPT ![1] = Pipe_or(@, func)]
    /\ lastOp' = [op |-> "or", a |-> <<func.name>>, b |-> <<>>]
    /\ UNCHANGED <<heap, runs, calls, result>>
    /\ UNCHANGED graphVars

\* pipe | x with x not callable: ValueError, nothing appended
PipeOrInvalid ==
    /\ lastOp' = [op |-> "or_invalid", a |-> <<"ValueError">>, b |-> <<>>]
    /\ UNCHANGED <<pipes, heap, runs, calls, result>>
    /\ UNCHANGED graphVars

\* pipe()
PipeCall ==
    /\ runs < MaxRuns
    /\ LET c == Pipe_call(pipes[1], heap) IN
       /\ pipes' = [pipes EXCEPT ![1].value = c.value]
       /\ heap' = c.heap
       /\ calls' = c.calls
       /\ result' = c.result
    /\ runs' = runs + 1
    /\ lastOp' = [op |-> "call", a |-> <<>>, b |-> <<>>]
    /\ UNCHANGED graphVars

PipeNext ==
    \/ \E func \in PipeStages : PipeOr(func)
    \/ PipeOrInvalid
    \/ PipeCall

SpecPipe == PipeInit /\ [][PipeNext]_vars

---------------------------------------------------------------------------
(* Wiring on its own: add_input, add_output and Layer.connect_to called in *)
(* any order on nodes that start with no edges                             *)

runVars == <<kind, data, data_history, pipeline, pipes, heap, layers, order,
             stack, exc, pc, lidx, runs, calls, result, invoked, merged>>

EdgesInit ==
    /\ kind = [n \in Nodes |-> "DataNode"]
    /\ data = [n \in Nodes |-> None]
    /\ inputs = [n \in Nodes |-> {}]
    /\ outputs = [n \in Nodes |-> {}]
    /\ data_history = [n \in Nodes |-> <<>>]
    /\ pipeline = [n \in Nodes |-> 0]
    /\ pipes = <<>>
    /\ heap = <<>>
    /\ layers = <<>>
    /\ order = <<>>
    /\ stack = <<>>
    /\ exc = "none"
    /\ pc = "idle"
    /\ lidx = 0
    /\ runs = 0
    /\ calls = <<>>
    /\ result = None
    /\ lastOp = NoOp
    /\ requested = {}
    /\ invoked = <<>>
    /\ merged = None

\* self.add_input(node)
AddInput(self, node) ==
    LET F == Registered(Edges(inputs, outputs), add_input(Edges(inputs, outputs), self, node)) IN
    /\ inputs' = F.inputs
    /\ outputs' = F.outputs
    /\ requested' = requested \cup {<<node, self>>}
    /\ lastOp' = [op |-> "add_input", a |-> <<>>, b |-> <<F.max>>]
    /\ UNCHANGED runVars

\* self.add_output(node)
AddOutput(self, node) ==
    LET F == Registered(Edges(inputs, outputs), add_output(Edges(inputs, outputs), self, node)) IN
    /\ inputs' = F.inputs
    /\ outputs' = F.outputs
    /\ requested' = requested \cup {<<self, node>>}
    /\ lastOp' = [op |-> "add_output", a |-> <<>>, b |-> <<F.max>>]
    /\ UNCHANGED runVars

\* Layer(nodes=self_nodes).connect_to(Layer(nodes=next_nodes))
ConnectTo(self_nodes, next_nodes) ==
    LET F == connect_to(Edges(inputs, outputs), self_nodes, next_nodes) IN
    /\ inputs' = F.inputs
    /\ outputs' = F.outputs
    /\ requested' = requested \cup (Range(self_nodes) \X Range(next_nodes))
    /\ lastOp' = [op |-> "connect_to", a |-> <<>>, b |-> <<F.max>>]
    /\ UNCHANGED runVars

EdgesNext ==
    \/ \E self \in EdgeNodes, node \in EdgeNodes : AddInput(self, node)
    \/ \E self \in EdgeNodes, node \in EdgeNodes : AddOutput(self, node)
    \/ \E self_nodes \in LayersOver(EdgeNodes), next_nodes \in LayersOver(EdgeNodes) :
          ConnectTo(self_nodes, next_nodes)

SpecEdges == EdgesInit /\ [][EdgesNext]_vars

---------------------------------------------------------------------------
(* Layers wired to each other: two Layer objects over disjoint nodes, and  *)
(* connect_to called between them in any order and direction               *)

ConnectInit ==
    /\ kind = [n \in Nodes |-> "DataNode"]
    /\ data = [n \in Nodes |-> None]
    /\ inputs = [n \in Nodes |-> {}]
    /\ outputs = [n \in Nodes |-> {}]
    /\ data_history = [n \in Nodes |-> <<>>]
    /\ pipeline = [n \in Nodes |-> 0]
    /\ pipes = <<>>
    /\ heap = <<>>
    /\ \E first \in LayersOver(Nodes), second \in LayersOver(Nodes) :
          /\ Range(first) \cap Range(second) = {}
          /\ layers = <<first, second>>
    /\ order = <<>>
    /\ stack = <<>>
    /\ exc = "none"
    /\ pc = "idle"
    /\ lidx = 0
    /\ runs = 0
    /\ calls = <<>>
    /\ result = None
    /\ lastOp = NoOp
    /\ requested = {}
    /\ invoked = <<>>
    /\ merged = None

\* layers[i].connect_to(layers[j])
LayerConnectTo(i, j) ==
    LET F == connect_to(Edges(inputs, outputs), layers[i], layers[j]) IN
    /\ inputs' = F.inputs
    /\ outputs' = F.outputs
    /\ requested' = requested \cup (Range(layers[i]) \X Range(layers[j]))
    /\ lastOp' = [op |-> "connect_to", a |-> <<i, j>>, b |-> <<F.max>>]
    /\ UNCHANGED runVars

ConnectNext == \E i \in 1..Len(layers), j \in 1..Len(layers) : LayerConnectTo(i, j)

SpecConnect == ConnectInit /\ [][ConnectNext]_vars

---------------------------------------------------------------------------
(* custom_merge on its own: two nodes holding dicts, merged by the static  *)
(* method. Every list in the two dicts is an object of its own.            *)

\* the dict built from the slots sl[from+1], sl[from+2] for the keys a, b,
\* its lists at the addresses after base
RECURSIVE BuildDict(_, _, _, _)
BuildDict(sl, from, base, i) ==
    IF i > Len(MergeKeys) THEN [d |-> EmptyDict, lists |-> <<>>]
    ELSE LET slot == sl[from + i]
             rest(b) == BuildDict(sl, from, b, i + 1)
         IN  CASE slot.k = "absent" -> rest(base)
               [] slot.k = "int" ->
                    [d |-> Update(rest(base).d, Single(MergeKeys[i], slot.xs[1])),
                     lists |-> rest(base).lists]
               [] OTHER ->
                    [d |-> Update(rest(base + 1).d, Single(MergeKeys[i], RefV(base + 1))),
                     lists |-> <<slot.xs>> \o rest(base + 1).lists]

MergeInit ==
    /\ kind = [n \in Nodes |-> "DataNode"]
    /\ \E sl \in [1..4 -> SlotChoices] :
          LET one == BuildDict(sl, 0, 0, 1)
              two == BuildDict(sl, 2, Len(one.lists), 1)
          IN  /\ data = [n \in Nodes |-> IF n = "n1" THEN Some(one.d)
                                         ELSE IF n = "n2" THEN Some(two.d) ELSE None]
              /\ heap = one.lists \o two.lists
    /\ inputs = [n \in Nodes |-> {}]
    /\ outputs = [n \in Nodes |-> {}]
    /\ data_history = [n \in Nodes |-> <<>>]
    /\ pipeline = [n \in Nodes |-> 0]
    /\ pipes = <<>>
    /\ layers = <<>>
    /\ order = <<>>
    /\ stack = <<>>
    /\ exc = "none"
    /\ pc = "idle"
    /\ lidx = 0
    /\ runs = 0
    /\ calls = <<>>
    /\ result = None
    /\ lastOp = NoOp
    /\ requested = {}
    /\ invoked = <<>>
    /\ merged = None

\* the orders dict2.items() can have
KeyOrders(d) == {q \in [1..Cardinality(DOMAIN d) -> DOMAIN d] : Range(q) = DOMAIN d}

\* MixerNode.custom_merge(n1.data, n2.data)
CustomMerge ==
    /\ runs < MaxRuns
    /\ \E ks \in KeyOrders(data["n2"].d) :
          LET M == custom_merge(data["n1"].d, data["n2"].d, ks, heap) IN
          /\ merged' = Some(M.merged)
          /\ heap' = M.heap
    /\ runs' = runs + 1
    /\ lastOp' = [op |-> "custom_merge", a |-> <<>>, b |-> <<>>]
    /\ UNCHANGED <<kind, data, inputs, outputs, data_history, pipeline, pipes,
                   layers, order, stack, exc, pc, lidx, calls, result,
                   requested, invoked>>

MergeNext == CustomMerge

SpecMerge == MergeInit /\ [][MergeNext]_vars

---------------------------------------------------------------------------
(* The graph run: Layer.process on the entry layer, and the recursive      *)
(* Node.process calls below it, one step per statement group. A frame of   *)
(* the stack is one Node.process invocation: at "body" before its          *)
(* statements ahead of the loop over self.outputs, at "loop" in it, with   *)
(* todo the outputs still to come.                                         *)

\* the edge sets after wiring the layers ls[i] to ls[i + 1], from i on
RECURSIVE WireFrom(_, _, _)
WireFrom(E, ls, i) ==
    IF i >= Len(ls) THEN E
    ELSE WireFrom(connect_to(E, ls[i], ls[i + 1]), ls, i + 1)

\* the elements of the set S in the order the sequence ord gives
InOrder(S, ord) == SelectSeq(ord, LAMBDA n : n \in S)

\* failed: the Pipe run of this invocation returned None
Frame(n) == [node |-> n, at |-> "body", todo |-> <<>>, failed |-> FALSE]

\* an entry of the log of invocations: node.process() was called, from
\* Layer.process (depth 1, by "") or by the node that gave it its data
Invocation(n, depth, by, given) ==
    [node |-> n, depth |-> depth, by |-> by, given |-> given]
\* an entry of the log: Layer.process caught what node.process() raised
Caught(n) == [node |-> n, depth |-> 0, by |-> "except", given |-> None]

\* output.data = self.data.copy() if self.data else None
Pushed(d) == IF Truthy(d) THEN Some(d.d) ELSE None

\* DataNode.process ahead of its loop: the new data_history
DataNode_body(d, hist) == IF d.some THEN Append(hist, d.d) ELSE hist

\* ProcessingNode.process ahead of its loop, the bag replaced by the data
\* (self.pipeline.value = self.data.copy()) instead of updated with it
ProcessingNode_body_fresh(d, p, h) ==
    IF d.some
    THEN LET c == Pipe_call([p EXCEPT !.value = d.d], h) IN
         [data |-> IF Truthy(c.result) THEN Some(c.result.d) ELSE d,
          value |-> c.value, heap |-> c.heap, calls |-> <<c.calls>>,
          result |-> <<c.result>>]
    ELSE [data |-> d, value |-> p.value, heap |-> h, calls |-> <<>>, result |-> <<>>]

\* ProcessingNode.process ahead of its loop, never storing the result
ProcessingNode_body_stale(d, p, h) ==
    IF d.some
    THEN LET c == Pipe_call([p EXCEPT !.value = Update(@, d.d)], h) IN
         [data |-> d, value |-> c.value, heap |-> c.heap, calls |-> <<c.calls>>,
          result |-> <<c.result>>]
    ELSE [data |-> d, value |-> p.value, heap |-> h, calls |-> <<>>, result |-> <<>>]

\* ProcessingNode.process ahead of its loop, for a node that has a Pipe p:
\* the bag takes the data, the Pipe runs, a truthy result replaces the data.
\* calls and result hold the run's, when there was one.
ProcessingNode_body(d, p, h) ==
    IF d.some
    THEN LET c == Pipe_call([p EXCEPT !.value = Update(@, d.d)], h) IN
         [data |-> IF Truthy(c.result) THEN Some(c.result.d) ELSE d,
          value |-> c.value, heap |-> c.heap, calls |-> <<c.calls>>,
          result |-> <<c.result>>]
    ELSE [data |-> d, value |-> p.value, heap |-> h, calls |-> <<>>, result |-> <<>>]
Top == stack[Len(stack)]
Pop(st) == SubSeq(st, 1, Len(st) - 1)
SetTop(st, f) == [st EXCEPT ![Len(st)] = f]

\* the Pipe objects of the nodes from NodeSeq[i] on, and the heap after
\* their construction: Pipe(value=..., trace=...) | f1 | f2 for a
\* ProcessingNode (the other nodes have none; their slot is never used)
RECURSIVE BuildPipes(_, _, _, _)
BuildPipes(roles, setup, i, h) ==
    IF i > Len(NodeSeq) THEN [pipes |-> <<>>, heap |-> h]
    ELSE LET role == roles[NodeSeq[i]]
             c == IF role.kind = "ProcessingNode"
                  THEN Pipe_init(setup.value, setup.trace, h)
                  ELSE Pipe_init(EmptyDict, FALSE, h)
             rest == BuildPipes(roles, setup, i + 1, c.heap)
         IN  [pipes |-> <<[c.pipe EXCEPT !.functions = role.functions]>> \o rest.pipes,
              heap |-> rest.heap]

RunInit ==
    /\ \E ls \in Shapes, roles \in [Nodes -> RoleChoices],
          entry \in [Nodes -> EntryData], ord \in HashOrders, setup \in PipeSetups :
          LET E == WireFrom(Edges([n \in Nodes |-> {}], [n \in Nodes |-> {}]), ls, 1)
              P == BuildPipes(roles, setup, 1, <<>>)
          IN
          \* traced pipelines for the shapes where a pipeline runs twice
          /\ setup.trace => /\ ls \in TracedShapes
                            /\ \A n \in Nodes : roles[n] \in TracedRoles
                            /\ \E n \in Nodes : roles[n].kind = "ProcessingNode"
          \* Python integers have no bound: keep the squarings to one node
          /\ Cardinality({n \in Nodes : roles[n].functions = <<StSquare>>}) <= 1
          /\ \A n \in Nodes \ Range(ls[1]) : entry[n] = None
          \* the order shows only where a node has two outputs
          /\ (\A n \in Nodes : Cardinality(E.outputs[n]) <= 1) => ord = NodeSeq
          /\ layers = ls
          /\ kind = [n \in Nodes |-> roles[n].kind]
          /\ data = entry
          /\ inputs = E.inputs
          /\ outputs = E.outputs
          /\ pipeline = [n \in Nodes |->
                IF roles[n].kind = "ProcessingNode"
                THEN CHOOSE i \in 1..Len(NodeSeq) : NodeSeq[i] = n ELSE 0]
          /\ pipes = P.pipes
          /\ heap = P.heap
          /\ order = ord
    /\ data_history = [n \in Nodes |-> <<>>]
    /\ stack = <<>>
    /\ exc = "none"
    /\ pc = "idle"
    /\ lidx = 0
    /\ runs = 0
    /\ calls = <<>>
    /\ result = None
    /\ lastOp = NoOp
    /\ requested = {}
    /\ invoked = <<>>
    /\ merged = None

\* the driver calls layers[1].process()
LayerProcess ==
    /\ pc = "idle"
    /\ runs < MaxRuns
    /\ pc' = "layer"
    /\ lidx' = 1
    /\ runs' = runs + 1
    /\ invoked' = <<>>
    /\ lastOp' = NoOp
    /\ UNCHANGED <<kind, data, inputs, outputs, data_history, pipeline, pipes, heap,
                   layers, order, stack, exc, calls, result, requested, merged>>

\* Layer.process: node.process() for the node at lidx
LayerCall ==
    /\ pc = "layer" /\ stack = <<>> /\ exc = "none"
    /\ lidx <= Len(layers[1])
    /\ stack' = <<Frame(layers[1][lidx])>>
    /\ invoked' = Append(invoked, Invocation(layers[1][lidx], 1, "", data[layers[1][lidx]]))
    /\ UNCHANGED <<kind, data, inputs, outputs, data_history, pipeline, pipes, heap,
                   layers, order, exc, pc, lidx, runs, calls, result, lastOp,
                   requested, merged>>

\* Layer.process without the try: the exception ends the loop and reaches
\* the driver
LayerCatch_abort ==
    /\ pc = "layer" /\ stack = <<>> /\ exc # "none"
    /\ pc' = "idle"
    /\ lastOp' = [op |-> "process", a |-> <<>>, b |-> <<>>]
    /\ UNCHANGED <<kind, data, inputs, outputs, data_history, pipeline, pipes, heap,
                   layers, order, stack, exc, lidx, runs, calls, result,
                   requested, invoked, merged>>

\* Layer.process: except Exception, then on to the next node
LayerCatch ==
    /\ pc = "layer" /\ stack = <<>> /\ exc # "none"
    /\ exc' = "none"
    /\ lidx' = lidx + 1
    /\ invoked' = Append(invoked, Caught(layers[1][lidx]))
    /\ UNCHANGED <<kind, data, inputs, outputs, data_history, pipeline, pipes, heap,
                   layers, order, stack, pc, runs, calls, result, lastOp,
                   requested, merged>>

\* Layer.process returns to the driver
LayerReturn ==
    /\ pc = "layer" /\ stack = <<>> /\ exc = "none"
    /\ lidx > Len(layers[1])
    /\ pc' = "idle"
    /\ lastOp' = [op |-> "process", a |-> <<>>, b |-> <<>>]
    /\ UNCHANGED <<kind, data, inputs, outputs, data_history, pipeline, pipes, heap,
                   layers, order, stack, exc, lidx, runs, calls, result,
                   requested, invoked, merged>>

\* DataNode.process up to the loop: the snapshot into data_history
DataNodeBody ==
    /\ stack # <<>> /\ exc = "none"
    /\ Top.at = "body" /\ kind[Top.node] = "DataNode"
    /\ LET self == Top.node IN
       /\ data_history' = [data_history EXCEPT ![self] = DataNode_body(data[self], @)]
       /\ stack' = SetTop(stack, [Top EXCEPT !.at = "loop",
                                             !.todo = InOrder(outputs[self], order)])
    /\ UNCHANGED <<kind, data, inputs, outputs, pipeline, pipes, heap, layers, order,
                   exc, pc, lidx, runs, calls, result, lastOp, requested, invoked,
                   merged>>

\* ProcessingNode.process up to the loop: the bag takes the data, the Pipe
\* runs, and a truthy result replaces the data
ProcessingNodeBody ==
    /\ stack # <<>> /\ exc = "none"
    /\ Top.at = "body" /\ kind[Top.node] = "ProcessingNode"
    /\ LET self == Top.node
           i == pipeline[self]
       IN  /\ IF i # 0
              THEN LET r == ProcessingNode_body(data[self], pipes[i], heap) IN
                   /\ pipes' = [pipes EXCEPT ![i].value = r.value]
                   /\ heap' = r.heap
                   /\ data' = [data EXCEPT ![self] = r.data]
                   /\ calls' = IF r.calls = <<>> THEN calls ELSE r.calls[1]
                   /\ result' = IF r.result = <<>> THEN result ELSE r.result[1]
                   /\ stack' = SetTop(stack,
                         [Top EXCEPT !.at = "loop",
                                     !.todo = InOrder(outputs[self], order),
                                     !.failed = r.result # <<>> /\ ~r.result[1].some])
              ELSE /\ UNCHANGED <<pipes, heap, calls, result, data>>
                   /\ stack' = SetTop(stack,
                         [Top EXCEPT !.at = "loop",
                                     !.todo = InOrder(outputs[self], order)])
    /\ UNCHANGED <<kind, inputs, outputs, data_history, pipeline, layers, order,
                   exc, pc, lidx, runs, lastOp, requested, invoked, merged>>

\* MixerNode.process waiting for a second input instead of returning
MixerNodeBody_wait ==
    /\ stack # <<>> /\ exc = "none"
    /\ Top.at = "body" /\ kind[Top.node] = "MixerNode"
    /\ IF Cardinality(inputs[Top.node]) >= 2
       THEN /\ exc' = "TypeError"
            /\ UNCHANGED stack
       ELSE UNCHANGED <<stack, exc>>
    /\ UNCHANGED <<kind, data, inputs, outputs, data_history, pipeline, pipes, heap,
                   layers, order, pc, lidx, runs, calls, result, lastOp, requested,
                   invoked, merged>>

\* MixerNode.process going on to its outputs whatever the number of inputs
MixerNodeBody_forward ==
    /\ stack # <<>> /\ exc = "none"
    /\ Top.at = "body" /\ kind[Top.node] = "MixerNode"
    /\ IF Cardinality(inputs[Top.node]) >= 2
       THEN /\ exc' = "TypeError"
            /\ UNCHANGED stack
       ELSE /\ stack' = SetTop(stack, [Top EXCEPT !.at = "loop",
                                                  !.todo = InOrder(outputs[Top.node], order)])
            /\ UNCHANGED exc
    /\ UNCHANGED <<kind, data, inputs, outputs, data_history, pipeline, pipes, heap,
                   layers, order, pc, lidx, runs, calls, result, lastOp, requested,
                   invoked, merged>>

\* MixerNode.process: with two inputs or more, self.inputs[0] subscripts a
\* WeakSet, which raises TypeError; with fewer, the warning and the return
MixerNodeBody ==
    /\ stack # <<>> /\ exc = "none"
    /\ Top.at = "body" /\ kind[Top.node] = "MixerNode"
    /\ IF Cardinality(inputs[Top.node]) >= 2
       THEN /\ exc' = "TypeError"
            /\ UNCHANGED stack
       ELSE /\ stack' = SetTop(stack, [Top EXCEPT !.at = "loop"])
            /\ UNCHANGED exc
    /\ UNCHANGED <<kind, data, inputs, outputs, data_history, pipeline, pipes, heap,
                   layers, order, pc, lidx, runs, calls, result, lastOp, requested,
                   invoked, merged>>

\* the loop passing over the outputs when the node holds no data
Push_skip_absent ==
    /\ stack # <<>> /\ exc = "none"
    /\ Top.at = "loop" /\ Top.todo # <<>>
    /\ LET self == Top.node
           output == Head(Top.todo)
       IN  IF ~data[self].some
           THEN /\ stack' = SetTop(stack, [Top EXCEPT !.todo = Tail(@)])
                /\ UNCHANGED <<data, invoked>>
           ELSE /\ data' = [data EXCEPT ![output] = Pushed(data[self])]
                /\ stack' = Append(SetTop(stack, [Top EXCEPT !.todo = Tail(@)]),
                                   Frame(output))
                /\ invoked' = Append(invoked, Invocation(output, Len(stack) + 1, self,
                                                         Pushed(data[self])))
    /\ UNCHANGED <<kind, inputs, outputs, data_history, pipeline, pipes, heap, layers,
                   order, exc, pc, lidx, runs, calls, result, lastOp, requested,
                   merged>>

\* the loop skipping an output that was processed in this run already
Push_once ==
    /\ stack # <<>> /\ exc = "none"
    /\ Top.at = "loop" /\ Top.todo # <<>>
    /\ LET self == Top.node
           output == Head(Top.todo)
       IN  IF \E j \in 1..Len(invoked) : invoked[j].node = output
           THEN /\ stack' = SetTop(stack, [Top EXCEPT !.todo = Tail(@)])
                /\ UNCHANGED <<data, invoked>>
           ELSE /\ data' = [data EXCEPT ![output] = Pushed(data[self])]
                /\ stack' = Append(SetTop(stack, [Top EXCEPT !.todo = Tail(@)]),
                                   Frame(output))
                /\ invoked' = Append(invoked, Invocation(output, Len(stack) + 1, self,
                                                         Pushed(data[self])))
    /\ UNCHANGED <<kind, inputs, outputs, data_history, pipeline, pipes, heap, layers,
                   order, exc, pc, lidx, runs, calls, result, lastOp, requested,
                   merged>>

\* the loop giving the data to all the outputs still to come ahead of the
\* one process() call
Push_batch ==
    /\ stack # <<>> /\ exc = "none"
    /\ Top.at = "loop" /\ Top.todo # <<>>
    /\ LET self == Top.node
           output == Head(Top.todo)
       IN  /\ data' = [n \in Nodes |-> IF n \in Range(Top.todo)
                                       THEN Pushed(data[self]) ELSE data[n]]
           /\ stack' = Append(SetTop(stack, [Top EXCEPT !.todo = Tail(@)]), Frame(output))
           /\ invoked' = Append(invoked, Invocation(output, Len(stack) + 1, self,
                                                    Pushed(data[self])))
    /\ UNCHANGED <<kind, inputs, outputs, data_history, pipeline, pipes, heap, layers,
                   order, exc, pc, lidx, runs, calls, result, lastOp, requested,
                   merged>>

\* the loop of DataNode.process and ProcessingNode.process, one output:
\* output.data = self.data.copy() if self.data else None; output.process()
Push ==
    /\ stack # <<>> /\ exc = "none"
    /\ Top.at = "loop" /\ Top.todo # <<>>
    /\ LET self == Top.node
           output == Head(Top.todo)
       IN  /\ data' = [data EXCEPT ![output] = Pushed(data[self])]
           /\ stack' = Append(SetTop(stack, [Top EXCEPT !.todo = Tail(@)]), Frame(output))
           /\ invoked' = Append(invoked, Invocation(output, Len(stack) + 1, self,
                                                    Pushed(data[self])))
    /\ UNCHANGED <<kind, inputs, outputs, data_history, pipeline, pipes, heap, layers,
                   order, exc, pc, lidx, runs, calls, result, lastOp, requested,
                   merged>>

\* Node.process returns; back in Layer.process, on to the next node
Return ==
    /\ stack # <<>> /\ exc = "none"
    /\ Top.at = "loop" /\ Top.todo = <<>>
    /\ stack' = Pop(stack)
    /\ lidx' = IF Len(stack) = 1 THEN lidx + 1 ELSE lidx
    /\ UNCHANGED <<kind, data, inputs, outputs, data_history, pipeline, pipes, heap,
                   layers, order, exc, pc, runs, calls, result, lastOp, requested,
                   invoked, merged>>

\* a Node.process invocation catching what the neighbor's process() raised
\* and going on with its loop
Unwind_caught ==
    /\ stack # <<>> /\ exc # "none"
    /\ stack' = Pop(stack)
    /\ exc' = IF Len(stack) > 1 THEN "none" ELSE exc
    /\ UNCHANGED <<kind, data, inputs, outputs, data_history, pipeline, pipes, heap,
                   layers, order, pc, lidx, runs, calls, result, lastOp,
                   requested, invoked, merged>>

\* the exception leaves a Node.process invocation: none has a handler
Unwind ==
    /\ stack # <<>> /\ exc # "none"
    /\ stack' = Pop(stack)
    /\ UNCHANGED <<kind, data, inputs, outputs, data_history, pipeline, pipes, heap,
                   layers, order, exc, pc, lidx, runs, calls, result, lastOp,
                   requested, invoked, merged>>

Next ==
    \/ LayerProcess
    \/ LayerCall
    \/ LayerCatch
    \/ LayerReturn
    \/ DataNodeBody
    \/ ProcessingNodeBody
    \/ MixerNodeBody
    \/ Push
    \/ Return
    \/ Unwind

Spec == RunInit /\ [][Next]_vars

\* The runs under fairness, for termination: the graphs with untraced
\* pipelines, a DataNode first and every entry node holding
\* {passthrough: 10}. The steps of
\* Layer.process and of the invocations below it are taken as long as one
\* is possible; when the driver calls process() is up to the driver.
TermInit ==
    /\ RunInit
    /\ order = NodeSeq
    /\ heap = <<>>
    /\ \A n \in Range(layers[1]) : data[n] = Some(Single("passthrough", IntV(10)))
    /\ kind["n1"] = "DataNode"
    /\ \A i \in 1..Len(pipes) : pipes[i].functions \in {<<>>, <<StAdd(5)>>, <<StAdd(5), StRaise>>}

Step ==
    \/ LayerCall
    \/ LayerCatch
    \/ LayerReturn
    \/ DataNodeBody
    \/ ProcessingNodeBody
    \/ MixerNodeBody
    \/ Push
    \/ Return
    \/ Unwind

TermNext == LayerProcess \/ Step

SpecTerm == TermInit /\ [][TermNext]_vars /\ WF_vars(Step)

---------------------------------------------------------------------------
(* Claims about a Pipe on its own (SpecPipe)                               *)

\* the step is a pipe() call
IsPipeCall == lastOp'.op = "call" /\ runs' = runs + 1

\* the bag after each of the stages 1..k was given the bag and its output
\* was merged into it
RECURSIVE BagAfter(_, _, _)
BagAfter(fns, bag, k) ==
    IF k = 0 THEN bag
    ELSE LET b == BagAfter(fns, bag, k - 1) IN Update(b, Apply(fns[k], b).out)

\* stage k, given the bag the stages before it leave, returns a non-mapping or raises
StageFails(fns, bag, k) ==
    LET r == Apply(fns[k], BagAfter(fns, bag, k - 1)) IN r.raised \/ ~r.isdict

\* d without the key k
Without(d, k) == [j \in DOMAIN d \ {k} |-> d[j]]

\* C2: fail-fast. Whenever a run's k-th stage is invoked and returns a
\* non-mapping or raises, the run returns None, no stage after the k-th is
\* invoked, and the bag is the bag before the call with the outputs of the
\* stages 1..k-1 merged in order: no rollback, nothing of stage k.
C2_FailFast ==
    [][IsPipeCall =>
        \A k \in 1..Len(pipes[1].functions) :
            ((\E j \in 1..Len(calls') : calls'[j] = k)
                /\ StageFails(pipes[1].functions, pipes[1].value, k))
            => /\ result' = None
               /\ calls' = [i \in 1..k |-> i]
               /\ pipes'[1].value = BagAfter(pipes[1].functions, pipes[1].value, k - 1)
               /\ pipes'[1].functions = pipes[1].functions]_vars

\* C2 witness: a run failed at its second or third stage, with a stage left
\* uninvoked behind the failing one and the key "m" merged in by a stage
\* before it
C2_Witness ==
    /\ lastOp.op = "call"
    /\ result = None
    /\ Len(calls) >= 2
    /\ Len(pipes[1].functions) > Len(calls)
    /\ pipes[1].functions[Len(calls)].kind \in {"nondict", "raise"}
    /\ pipes[1].functions[1] = StConst("m", 3)
    /\ "m" \in DOMAIN pipes[1].value

\* C3: stage ordering and trace. The first run of a traced pipeline with
\* three stages that all return mappings invokes the stages 1, 2, 3 once
\* each in that order and leaves a trace of length 4: the snapshot of the
\* bag at construction, then the name and output of each stage.
C3_OrderAndTrace ==
    [][(/\ IsPipeCall
        /\ runs = 0
        /\ pipes[1].trace
        /\ Len(pipes[1].functions) = 3
        /\ \A k \in 1..3 : ~StageFails(pipes[1].functions, pipes[1].value, k))
       => LET fns == pipes[1].functions
              bag == pipes[1].value
              tr == heap'[bag["trace"].v]
          IN  /\ calls' = <<1, 2, 3>>
              /\ Len(tr) = 4
              /\ tr[1] = [function |-> "input", output |-> Without(bag, "trace")]
              /\ \A i \in 1..3 :
                    tr[i + 1] = [function |-> fns[i].name,
                                 output |-> Apply(fns[i], BagAfter(fns, bag, i - 1)).out]]_vars

---------------------------------------------------------------------------
(* Claims about the wiring (SpecEdges, SpecConnect)                        *)

\* the directed edges the outputs sets hold
EdgesOf(outs) == {e \in Nodes \X Nodes : e[2] \in outs[e[1]]}

\* C6: edge symmetry. After any sequence of add_input, add_output and
\* connect_to calls, B is in A.outputs exactly when A is in B.inputs, and a
\* node is in its own inputs or outputs only if a call connected it to
\* itself.
C6_EdgeSymmetry ==
    /\ \A a \in Nodes, b \in Nodes : (b \in outputs[a]) <=> (a \in inputs[b])
    /\ \A a \in Nodes :
          (a \in outputs[a] \/ a \in inputs[a]) => <<a, a>> \in requested

\* C6 witness: n1 was connected to itself and to n2 (the self-loop by
\* add_input), n2 was not connected to itself
C6_Witness ==
    /\ lastOp.op = "add_input"
    /\ outputs["n1"] = {"n1", "n2"}
    /\ inputs["n1"] = {"n1"}
    /\ inputs["n2"] = {"n1"}
    /\ outputs["n2"] = {}

\* C7: connecting is complete and idempotent. connect_to between two
\* disjoint layers of m and n nodes with no edges yet creates exactly the
\* m*n edges from the first to the second, in outputs and in inputs; every
\* add_output it makes ends within three nested invocations; and a
\* connect_to whose edges are all there already changes no inputs or
\* outputs set.
C7_ConnectComplete ==
    [][lastOp'.op = "connect_to" =>
        LET A == Range(layers[lastOp'.a[1]])
            B == Range(layers[lastOp'.a[2]])
        IN  /\ lastOp'.b[1] <= 3
            /\ (A \cap B = {} /\ EdgesOf(outputs) = {} /\ EdgesOf(inputs) = {})
               => /\ \A a \in Nodes : outputs'[a] = IF a \in A THEN B ELSE {}
                  /\ \A b \in Nodes : inputs'[b] = IF b \in B THEN A ELSE {}
                  /\ Cardinality(EdgesOf(outputs')) = Cardinality(A) * Cardinality(B)
            /\ (\A a \in A, b \in B : b \in outputs[a] /\ a \in inputs[b])
               => (inputs' = inputs /\ outputs' = outputs)]_vars

\* C7 witness: two layers of two nodes each, connected once and then once
\* more: the latest connect_to found every edge there already
C7_Witness ==
    /\ Len(layers[1]) = 2
    /\ Len(layers[2]) = 2
    /\ lastOp.op = "connect_to"
    /\ lastOp.a = <<1, 2>>
    /\ lastOp.b = <<1>>
    /\ Cardinality(EdgesOf(outputs)) = 4
    /\ \A a \in Range(layers[1]) : outputs[a] = Range(layers[2])

---------------------------------------------------------------------------
(* Claims about custom_merge (SpecMerge)                                   *)

IsMerge == lastOp'.op = "custom_merge" /\ runs' = runs + 1

\* the elements a value stands for when merged: a list's elements, or the scalar itself
ItemsOf(h, x) == IF IsList(x) THEN h[x.v] ELSE <<x>>

\* x in heap h and y in heap g are the same scalar, or lists of the same elements
SameValue(h, x, g, y) ==
    /\ IsList(x) = IsList(y)
    /\ IF IsList(x) THEN h[x.v] = g[y.v] ELSE x = y

\* C8: the merge law. The result is a mapping over the union of the keys; a
\* key of one mapping only keeps its value; a key of both maps to the list
\* of what the first holds (its elements, or the scalar) followed by what
\* the second holds.
C8_MergeLaw ==
    [][IsMerge =>
        LET d1 == data["n1"].d
            d2 == data["n2"].d
            R == merged'.d
        IN  /\ merged'.some
            /\ DOMAIN R = DOMAIN d1 \cup DOMAIN d2
            /\ \A k \in DOMAIN R :
                  IF k \in DOMAIN d1 /\ k \in DOMAIN d2
                  THEN /\ IsList(R[k])
                       /\ heap'[R[k].v] = ItemsOf(heap, d1[k]) \o ItemsOf(heap, d2[k])
                  ELSE IF k \in DOMAIN d1
                  THEN SameValue(heap', R[k], heap, d1[k])
                  ELSE SameValue(heap', R[k], heap, d2[k])]_vars

\* C8 witness: {a: [1], b: 1} merged with {a: 2, b: 2} gave {a: [1, 2], b: [1, 2]}
C8_Witness ==
    /\ lastOp.op = "custom_merge"
    /\ runs = 1
    /\ DOMAIN data["n1"].d = {"a", "b"}
    /\ DOMAIN data["n2"].d = {"a", "b"}
    /\ data["n2"].d["a"] = IntV(2)
    /\ data["n2"].d["b"] = IntV(2)
    /\ data["n1"].d["b"] = IntV(1)
    /\ IsList(data["n1"].d["a"])
    /\ merged.some
    /\ IsList(merged.d["a"]) /\ heap[merged.d["a"].v] = <<IntV(1), IntV(2)>>
    /\ IsList(merged.d["b"]) /\ heap[merged.d["b"].v] = <<IntV(1), IntV(2)>>

\* the addresses of the lists a dict holds
ListsOf(d) == {d[k].v : k \in {j \in DOMAIN d : IsList(d[j])}}

\* C9: merging neither modifies nor aliases its inputs. After the merge the
\* two dicts, and the lists they hold, are as before, and no list of the
\* result is a list of an input.
C9_MergeFrame ==
    [][IsMerge =>
        /\ data' = data
        /\ \A n \in {"n1", "n2"} : \A a \in ListsOf(data[n].d) : heap'[a] = heap[a]
        /\ ListsOf(merged'.d) \cap (ListsOf(data["n1"].d) \cup ListsOf(data["n2"].d)) = {}]_vars

---------------------------------------------------------------------------
(* Claims about a run of the graph (Spec)                                  *)

\* the example graph: Input -> Adder -> Squarer -> Output, one node a layer
IsExampleChain ==
    /\ layers = << <<"n1">>, <<"n2">>, <<"n3">>, <<"n4">> >>
    /\ kind = [n \in Nodes |-> IF n \in {"n1", "n4"} THEN "DataNode"
                                                     ELSE "ProcessingNode"]
    /\ pipes[2].functions = <<StAdd(5)>>
    /\ pipes[3].functions = <<StSquare>>
    /\ data["n1"] = Some(Single("passthrough", IntV(10)))

\* C1: in the chain Input {passthrough: 10} -> Adder (+5) -> Squarer ->
\* Output, after a single process() of the entry layer Adder.data is
\* {passthrough: 15}, Squarer.data is {passthrough: 225} and Output's
\* history is the one entry {passthrough: 225}.
C1_LinearChain ==
    (IsExampleChain /\ runs = 1 /\ pc = "idle") =>
        /\ data["n2"] = Some(Single("passthrough", IntV(15)))
        /\ data["n3"] = Some(Single("passthrough", IntV(225)))
        /\ data_history["n4"] = <<Single("passthrough", IntV(225))>>

C1_Witness ==
    /\ IsExampleChain /\ runs = 1 /\ pc = "idle" /\ lastOp.op = "process"
    /\ Len(invoked) = 4
    /\ data["n4"] = Some(Single("passthrough", IntV(225)))

\* the invocation on top of the stack is a ProcessingNode's, about to run
\* its statements ahead of the loop, with data present and a pipeline
AtTransformBody ==
    /\ stack # <<>> /\ exc = "none"
    /\ Top.at = "body" /\ kind[Top.node] = "ProcessingNode"
    /\ data[Top.node].some /\ pipeline[Top.node] # 0

\* C4: when ProcessingNode.process() runs with data present and the run of
\* its pipeline fails, the node's data stays what it was, every output
\* neighbor is given a copy of that data and has process() invoked, and no
\* exception leaves the process() call.
C4_StaleForward ==
    [][/\ (AtTransformBody /\ stack'[Len(stack)].failed) =>
              /\ data'[Top.node] = data[Top.node]
              /\ exc' = "none"
       /\ (stack # <<>> /\ Top.failed /\ Len(stack') > Len(stack)) =>
              /\ invoked'[Len(invoked')].node = Head(Top.todo)
              /\ invoked'[Len(invoked')].given = Some(data[Top.node].d)
              /\ data'[Head(Top.todo)] = Some(data[Top.node].d)
       /\ (stack # <<>> /\ Top.failed /\ Len(stack') < Len(stack)) =>
              /\ exc = "none"
              /\ \A o \in outputs[Top.node] :
                    \E j \in 1..Len(invoked) :
                       invoked[j].node = o /\ invoked[j].by = Top.node
      ]_vars

\* the nodes Layer.process called process() on, in the order of the calls
LayerCalls ==
    LET top == SelectSeq(invoked, LAMBDA e : e.depth = 1)
    IN  [i \in 1..Len(top) |-> top[i].node]

\* C5: Layer.process() calls process() on every node of the layer once, in
\* the stored order; what a node's processing raises stops at the layer,
\* the later nodes are still processed, each giving its data to its
\* outputs unless its own processing raises, and Layer.process() returns
\* without an exception.
C5_LayerIsolation ==
    (pc = "idle" /\ runs >= 1) =>
        /\ LayerCalls = layers[1]
        /\ exc = "none" /\ stack = <<>>
        /\ \A i \in 1..Len(invoked) :
              (invoked[i].depth = 1 /\ kind[invoked[i].node] # "MixerNode") =>
                 \/ \A o \in outputs[invoked[i].node] :
                       \E j \in (i + 1)..Len(invoked) :
                          /\ invoked[j].node = o
                          /\ invoked[j].by = invoked[i].node
                          /\ invoked[j].depth = 2
                 \/ \E j \in (i + 1)..Len(invoked) :
                       invoked[j] = Caught(invoked[i].node)

\* the first node of a layer of two raised, and the second was processed
\* after that and gave its data to an output
C5_Witness ==
    /\ pc = "idle" /\ runs = 1 /\ lastOp.op = "process"
    /\ Len(layers[1]) = 2
    /\ \E c, i, j \in 1..Len(invoked) :
          /\ c < i /\ i < j
          /\ invoked[c] = Caught(layers[1][1])
          /\ invoked[i].node = layers[1][2] /\ invoked[i].depth = 1
          /\ invoked[j].by = layers[1][2] /\ invoked[j].depth = 2
          /\ Len(data_history[invoked[j].node]) = 2

---------------------------------------------------------------------------
(* Claims about MixerNode.process (Spec)                                   *)

\* the inputs of n in the order they were added: connect_to adds the nodes
\* of the layer before n's, in that layer's order
InsertionInputs(n) ==
    LET k == CHOOSE i \in 1..Len(layers) : n \in Range(layers[i])
    IN  IF k = 1 THEN <<>> ELSE layers[k - 1]

\* the invocation on top of the stack is a MixerNode's, with two inputs or
\* more, the first two holding data
AtMixerBody ==
    /\ stack # <<>> /\ exc = "none"
    /\ Top.at = "body" /\ kind[Top.node] = "MixerNode"
    /\ Len(InsertionInputs(Top.node)) >= 2
    /\ Truthy(data[InsertionInputs(Top.node)[1]])
    /\ Truthy(data[InsertionInputs(Top.node)[2]])

\* C10: MixerNode.process() on a node with two input edges or more, whose
\* first two inputs in insertion order hold data, makes the node's data
\* the merge of the two, and then gives every output neighbor a copy of it
\* and invokes its process().
C10_MixerMerges ==
    [][/\ AtMixerBody =>
              LET d1 == data[InsertionInputs(Top.node)[1]].d
                  d2 == data[InsertionInputs(Top.node)[2]].d
              IN  /\ exc' = "none"
                  /\ \E ks \in KeyOrders(d2) :
                        data'[Top.node] = Some(custom_merge(d1, d2, ks, heap).merged)
       /\ (/\ stack # <<>> /\ kind[Top.node] = "MixerNode"
           /\ Cardinality(inputs[Top.node]) >= 2
           /\ Len(stack') < Len(stack)) =>
              /\ exc = "none"
              /\ \A o \in outputs[Top.node] :
                    \E j \in 1..Len(invoked) :
                       /\ invoked[j].node = o /\ invoked[j].by = Top.node
                       /\ invoked[j].given = data[Top.node]
      ]_vars

\* the invocation on top of the stack is a MixerNode's with fewer than two
\* input edges
AtLoneMixer ==
    /\ stack # <<>> /\ exc = "none"
    /\ kind[Top.node] = "MixerNode"
    /\ Cardinality(inputs[Top.node]) < 2

\* the entry j of the log is the call of a MixerNode with fewer than two
\* input edges
IsLoneMixerCall(j) ==
    /\ invoked[j].depth >= 1
    /\ kind[invoked[j].node] = "MixerNode"
    /\ Cardinality(inputs[invoked[j].node]) < 2

\* the element after x in the sequence q, as a sequence of one or none
NextIn(q, x) ==
    LET k == CHOOSE i \in 1..Len(q) : q[i] = x
    IN  IF k < Len(q) THEN <<q[k + 1]>> ELSE <<>>

\* the call Layer.process or the calling node makes next after the call
\* logged as entry j returned without an exception, as a sequence of one or
\* none (by and depth only)
CallAfter(j) ==
    LET e == invoked[j]
        nx == IF e.depth = 1 THEN NextIn(layers[1], e.node)
              ELSE NextIn(InOrder(outputs[e.by], order), e.node)
    IN  IF nx = <<>> THEN <<>>
        ELSE <<[node |-> nx[1], depth |-> e.depth, by |-> e.by]>>

\* C11: MixerNode.process() on a node with fewer than two input edges
\* raises nothing, changes no node's data, invokes no process(), and
\* returns; the node that called it goes on to its next output neighbor,
\* and Layer.process to the next node of the layer.
C11_LoneMixerHalts ==
    /\ [][AtLoneMixer =>
             /\ exc' = "none"
             /\ data' = data /\ data_history' = data_history
             /\ invoked' = invoked
             /\ IF Top.at = "body"
                THEN stack' = SetTop(stack, [Top EXCEPT !.at = "loop"])
                ELSE /\ stack' = Pop(stack)
                     /\ pc' = "layer"
                     /\ lidx' = IF Len(stack) = 1 THEN lidx + 1 ELSE lidx]_vars
    /\ [](pc = "idle" =>
             \A j \in 1..Len(invoked) :
                (IsLoneMixerCall(j) /\ CallAfter(j) # <<>>) =>
                   /\ j < Len(invoked)
                   /\ invoked[j + 1].node = CallAfter(j)[1].node
                   /\ invoked[j + 1].depth = CallAfter(j)[1].depth
                   /\ invoked[j + 1].by = CallAfter(j)[1].by)

\* a MixerNode with one input edge was called ahead of a sibling, and the
\* calling node went on to the sibling
C11_Witness ==
    /\ pc = "idle" /\ runs = 1 /\ lastOp.op = "process"
    /\ \E j \in 1..Len(invoked) :
          /\ IsLoneMixerCall(j) /\ invoked[j].depth = 2
          /\ CallAfter(j) # <<>>
          /\ j < Len(invoked)
          /\ invoked[j + 1].by = invoked[j].by
          /\ invoked[j + 1].node # invoked[j].node
          /\ data[invoked[j].node] = invoked[j].given

---------------------------------------------------------------------------
(* Claims about DataNode.process and the order of propagation (Spec)       *)

\* the invocation on top of the stack is a DataNode's
AtDataNode ==
    /\ stack # <<>> /\ exc = "none"
    /\ kind[Top.node] = "DataNode"

\* C12: DataNode.process() appends one snapshot to its history exactly when
\* its data is present, and gives each output neighbor a copy equal to its
\* data when the data is present, the empty dict included, and None only
\* when its data is None, invoking the neighbor's process() after that.
C12_PushExact ==
    [][AtDataNode =>
          /\ Top.at = "body" =>
                data_history'[Top.node] =
                    IF data[Top.node].some
                    THEN Append(data_history[Top.node], data[Top.node].d)
                    ELSE data_history[Top.node]
          /\ (Top.at = "loop" /\ Top.todo # <<>>) =>
                /\ data'[Head(Top.todo)] = data[Top.node]
                /\ invoked' = Append(invoked,
                      Invocation(Head(Top.todo), Len(stack) + 1, Top.node,
                                 data[Top.node]))
                /\ stack'[Len(stack')] = Frame(Head(Top.todo))
      ]_vars

\* the step calls process() on an output neighbor
IsNeighborCall ==
    /\ Len(invoked') = Len(invoked) + 1
    /\ invoked'[Len(invoked')].depth >= 2

\* C13: propagation is depth-first. When a node gives its data to an
\* output and calls its process(), every invocation below the outputs
\* before it has returned (the stack holds the caller and its ancestors
\* only), the output is the next in iteration order, its data is written
\* in that step and no other node's data is.
C13_DepthFirst ==
    [][IsNeighborCall =>
          LET e == invoked'[Len(invoked')]
              k == e.depth
          IN  /\ Len(stack) = k - 1
              /\ stack[k - 1].node = e.by /\ stack[k - 1].at = "loop"
              /\ Head(stack[k - 1].todo) = e.node
              /\ stack' = Append(SetTop(stack, [Top EXCEPT !.todo = Tail(@)]),
                                 Frame(e.node))
              /\ data'[e.node] = e.given
              /\ \A n \in Nodes \ {e.node} : data'[n] = data[n]
      ]_vars

\* n1 gave its data to its first output, whose own output was processed
\* and returned, and only then to its second output
C13_Witness ==
    /\ Len(invoked) = 4 /\ Len(stack) = 2
    /\ invoked[2].depth = 2 /\ invoked[3].depth = 3 /\ invoked[4].depth = 2
    /\ invoked[3].by = invoked[2].node
    /\ invoked[4].by = invoked[2].by /\ invoked[4].node # invoked[2].node
    /\ Top = Frame(invoked[4].node)
    /\ kind[invoked[3].node] = "DataNode" /\ Len(data_history[invoked[3].node]) = 1
    /\ data[invoked[4].node] = invoked[4].given /\ invoked[4].given.some

---------------------------------------------------------------------------
(* Claims about the trace of a Pipe (SpecPipe)                             *)

\* the bag of the Pipe holds a trace: a list with an entry or more
TracePresent ==
    /\ "trace" \in DOMAIN pipes[1].value
    /\ IsList(pipes[1].value["trace"])
    /\ Len(heap[pipes[1].value["trace"].v]) >= 1

\* trace[0]
TraceHead == heap[pipes[1].value["trace"].v][1]

\* C14: a Pipe constructed with trace=True has a trace in every state,
\* after any sequence of | and pipe() calls, and trace[0] is the entry
\* made at construction, the snapshot of the bag passed to the constructor.
C14_TraceInvariant ==
    /\ pipes[1].trace =>
          /\ TracePresent
          /\ TraceHead = [function |-> "input",
                          output |-> Without(pipes[1].value, "trace")]
    /\ [][pipes[1].trace => (TracePresent' /\ TraceHead' = TraceHead)]_vars

---------------------------------------------------------------------------
(* Claims about data_history (Spec)                                        *)

\* the dict d as it reads with the heap h: a list value by its items
Deref(h, d) ==
    [k \in DOMAIN d |-> IF IsList(d[k]) THEN [t |-> "list", v |-> h[d[k].v]]
                        ELSE d[k]]

\* C15: the data_history of a DataNode is append-only: over every step the
\* history before is a prefix of the history after, each snapshot reading
\* as it did, and a step adds one entry at most.
C15_HistoryAppendOnly ==
    [][\A n \in Nodes :
          /\ Len(data_history'[n]) >= Len(data_history[n])
          /\ Len(data_history'[n]) <= Len(data_history[n]) + 1
          /\ \A i \in 1..Len(data_history[n]) :
                Deref(heap', data_history'[n][i]) = Deref(heap, data_history[n][i])
      ]_vars

---------------------------------------------------------------------------
(* Termination (SpecTerm)                                                  *)

\* C16: on a graph without a cycle, process() on the entry layer returns
\* to the caller in the end, no invocation left on the stack and no
\* exception pending.
C16_Terminates ==
    (pc = "layer") ~> (pc = "idle" /\ stack = <<>> /\ exc = "none")

\* process() returned after reaching the fourth layer of a chain, and after
\* catching what a node raised
C16_Witness ==
    /\ pc = "idle" /\ runs >= 1 /\ lastOp.op = "process"
    /\ stack = <<>>
    /\ \/ \E j \in 1..Len(invoked) : invoked[j].depth = 4
       \/ \E j \in 1..Len(invoked) : invoked[j].depth = 0

---------------------------------------------------------------------------
(* Claims about the bag of a node's pipeline (Spec)                        *)

\* the keys the stages fns write
StageKeys(fns) == {fns[j].key : j \in 1..Len(fns)}

\* C17: the bag of a pipeline persists. No step removes a key from a bag;
\* when ProcessingNode.process() runs its pipeline with success, the
\* node's data is the bag the run leaves, which holds every key of the bag
\* before and of the payload, with the value of the payload, or else of the
\* bag before, for each key no stage writes.
C17_BagPersists ==
    [][/\ \A i \in 1..Len(pipes) :
             DOMAIN pipes[i].value \subseteq DOMAIN pipes'[i].value
       /\ (AtTransformBody /\ ~stack'[Len(stack)].failed) =>
             LET self == Top.node
                 p == pipes[pipeline[self]]
                 d == data[self].d
             IN  /\ data'[self] = Some(pipes'[pipeline[self]].value)
                 /\ (DOMAIN p.value \cup DOMAIN d) \subseteq DOMAIN data'[self].d
                 /\ \A k \in (DOMAIN p.value \cup DOMAIN d) \ StageKeys(p.functions) :
                       data'[self].d[k] = IF k \in DOMAIN d THEN d[k] ELSE p.value[k]
      ]_vars

\* a ProcessingNode processed a second payload in a run, with success; the
\* payload had no key m and the node's data has the m of the bag
C17_Witness ==
    /\ stack # <<>> /\ exc = "none"
    /\ Top.at = "loop" /\ kind[Top.node] = "ProcessingNode" /\ ~Top.failed
    /\ Top.todo = InOrder(outputs[Top.node], order)
    /\ invoked[Len(invoked)].node = Top.node
    /\ invoked[Len(invoked)].given.some
    /\ "m" \notin DOMAIN invoked[Len(invoked)].given.d
    /\ \E j \in 1..(Len(invoked) - 1) : invoked[j].node = Top.node
    /\ "m" \in DOMAIN data[Top.node].d
    /\ data[Top.node].d["passthrough"].v = 15 /\ pipes[pipeline[Top.node]].trace

---------------------------------------------------------------------------
(* Claims about exceptions below the layer (Spec)                          *)

\* the entry j of the log is a call that raises: a MixerNode's with two
\* input edges or more
IsRaisingCall(j) ==
    /\ invoked[j].depth >= 1
    /\ kind[invoked[j].node] = "MixerNode"
    /\ Cardinality(inputs[invoked[j].node]) >= 2

\* C18: no Node.process catches what a process() it called raised. While
\* an exception is pending and an invocation is on the stack, the step is
\* that invocation ending with the exception still pending: no data or
\* history is written or taken back and no process() is called, up to
\* Layer.process; so in the log the call that raised is followed by the
\* catch at the layer, the later outputs of its ancestors left out.
C18_NoNodeBoundary ==
    /\ [][(stack # <<>> /\ exc # "none") =>
             /\ stack' = Pop(stack)
             /\ exc' = exc
             /\ data' = data /\ data_history' = data_history
             /\ pipes' = pipes /\ heap' = heap
             /\ invoked' = invoked
             /\ lidx' = lidx /\ pc' = pc]_vars
    /\ [](\A j \in 1..Len(invoked) :
             /\ invoked[j].depth = 0 =>
                   /\ j > 1 /\ IsRaisingCall(j - 1)
                   /\ \E i \in 1..(j - 1) :
                         /\ invoked[i].depth = 1 /\ invoked[i].node = invoked[j].node
                         /\ \A k \in (i + 1)..(j - 1) : invoked[k].depth > 1
             /\ (IsRaisingCall(j) /\ j < Len(invoked)) =>
                   invoked[j + 1].depth = 0)

\* in the diamond the MixerNode raised three invocations deep, below the
\* first output of the entry node: the second output got no data and no
\* call, and what was written on the way down is still there
C18_Witness ==
    /\ pc = "idle" /\ runs = 1 /\ lastOp.op = "process"
    /\ Len(layers) = 3 /\ Len(layers[2]) = 2
    /\ Len(invoked) = 4
    /\ invoked[3].depth = 3 /\ IsRaisingCall(3)
    /\ invoked[4] = Caught(layers[1][1])
    /\ \E o \in outputs[layers[1][1]] :
          /\ o # invoked[2].node
          /\ data[o] = None
    /\ data[invoked[2].node].some
    /\ Len(data_history[layers[1][1]]) = 1

---------------------------------------------------------------------------
(* Claims about paths (Spec)                                               *)

\* the number of directed paths from a node of the entry layer to n, in a
\* graph without a cycle
RECURSIVE PathsTo(_), PathsToAny(_)
PathsTo(n) ==
    (IF n \in Range(layers[1]) THEN 1 ELSE 0) + PathsToAny(inputs[n])
PathsToAny(S) ==
    IF S = {} THEN 0
    ELSE LET x == CHOOSE y \in S : TRUE IN PathsTo(x) + PathsToAny(S \ {x})

\* the entries of the log that are calls of n.process()
CallsOf(n) == SelectSeq(invoked, LAMBDA e : e.depth >= 1 /\ e.node = n)

---------------------------------------------------------------------------
(* Claims about a node without data (Spec)                                 *)

\* the invocation on top of the stack is a DataNode's or a
\* ProcessingNode's, the node's data None
AtAbsentData ==
    /\ stack # <<>> /\ exc = "none"
    /\ kind[Top.node] \in {"DataNode", "ProcessingNode"}
    /\ data[Top.node] = None

\* C20: DataNode.process() and ProcessingNode.process() on a node whose
\* data is None append nothing to the history, run no stage and leave the
\* bag of the pipeline as it is, and still set the data of every output
\* neighbor to None and call its process().
C20_AbsentPropagates ==
    [][AtAbsentData =>
          /\ data_history' = data_history
          /\ pipes' = pipes /\ heap' = heap
          /\ calls' = calls /\ result' = result
          /\ exc' = "none"
          /\ Top.at = "body" =>
                /\ data' = data /\ invoked' = invoked
                /\ stack' = SetTop(stack,
                      [Top EXCEPT !.at = "loop",
                                  !.todo = InOrder(outputs[Top.node], order)])
          /\ (Top.at = "loop" /\ Top.todo # <<>>) =>
                /\ data' = [data EXCEPT ![Head(Top.todo)] = None]
                /\ invoked' = Append(invoked,
                      Invocation(Head(Top.todo), Len(stack) + 1, Top.node, None))
                /\ stack' = Append(SetTop(stack, [Top EXCEPT !.todo = Tail(@)]),
                                   Frame(Head(Top.todo)))
      ]_vars

\* a node without data was processed and its output neighbor, given data
\* earlier in the run, holds None and is being processed
C20_Witness ==
    /\ stack # <<>> /\ exc = "none"
    /\ Len(stack) >= 2 /\ Top.at = "body"
    /\ invoked[Len(invoked)] =
          Invocation(Top.node, Len(stack), stack[Len(stack) - 1].node, None)
    /\ data[stack[Len(stack) - 1].node] = None
    /\ data[Top.node] = None
    /\ \E j \in 1..(Len(invoked) - 1) :
          invoked[j].node = Top.node /\ invoked[j].given.some

====
